---- MODULE Spec2Model ----
(***************************************************************************)
(* Model of notte_mcp_server.py: the run_notte tool and the proxy-candidate *)
(* failover resolver _run_notte_sync.                                       *)
(*                                                                          *)
(* Python strings are modelled as sequences of parts (Str): "" is <<>>,     *)
(* concatenation is \o, and strip()/lower()/urlparse() are computed on the  *)
(* parts.  None is the record NoneV; Some(s) wraps a present value.         *)
(***************************************************************************)
EXTENDS Integers, Sequences, FiniteSets, TLC

VARIABLES
    osenv,      \* os.environ: the configuration variables read by run_notte
    proxyEnv,   \* os.environ: ALL_PROXY/HTTP_PROXY/HTTPS_PROXY (always written together)
    envWriter,  \* history: the worker whose call wrote proxyEnv last (0: inherited)
    pool,       \* worker threads anyio.to_thread may use
    call        \* per worker: the run_notte invocation it serves

vars == <<osenv, proxyEnv, envWriter, pool, call>>

Workers == {1, 2}

-----------------------------------------------------------------------------
(* Values *)

NoneV == [some |-> FALSE, val |-> <<>>]
Some(s) == [some |-> TRUE, val |-> s]

\* Python truthiness of an Optional[str]: None and "" are falsy.
Truthy(o) == o.some /\ o.val # <<>>

\* os.getenv(name, default)
Getenv(name, default) == IF osenv[name].some THEN osenv[name].val ELSE default

Whitespace == {" "}

RECURSIVE LStrip(_)
LStrip(s) == IF s # <<>> /\ Head(s) \in Whitespace THEN LStrip(Tail(s)) ELSE s

RECURSIVE RStrip(_)
RStrip(s) ==
    IF s # <<>> /\ s[Len(s)] \in Whitespace THEN RStrip(SubSeq(s, 1, Len(s) - 1)) ELSE s

\* str.strip()
Strip(s) == RStrip(LStrip(s))

\* str.lower() on one part
LowerPart(p) ==
    CASE p = "BR" -> "br"
      [] p = "Br" -> "br"
      [] p = "US" -> "us"
      [] p = "On" -> "on"
      [] p = "TRUE" -> "true"
      [] p = "False" -> "false"
      [] OTHER -> p

\* str.lower()
Lower(s) == [k \in 1..Len(s) |-> LowerPart(s[k])]

\* _str_to_bool(val, default)
StrToBool(val, default) ==
    IF ~val.some THEN default
    ELSE Lower(Strip(val.val)) \in {<<"1">>, <<"true">>, <<"yes">>, <<"on">>}

-----------------------------------------------------------------------------
(* urllib.parse.urlparse on the parts of a URL *)

Schemes == {"socks5://", "http://"}
Ports == {":1080"}
BadNetloc == {"[bad"}

\* urlparse raises ValueError (Invalid IPv6 URL) on an unbalanced bracket in the netloc
UrlparseRaises(s) ==
    /\ Len(s) >= 2
    /\ s[1] \in Schemes
    /\ s[2] \in BadNetloc

\* parsed.scheme
UrlScheme(s) == IF s # <<>> /\ s[1] \in Schemes THEN <<s[1]>> ELSE <<>>

\* the netloc of "scheme://netloc": a second "scheme://" is read as host "scheme"
\* with an empty port and a path
SchemeName(p) == IF p = "socks5://" THEN "socks5" ELSE "http"

\* parsed.hostname: the netloc follows "scheme://"; without a scheme all is path
UrlHostname(s) ==
    IF Len(s) >= 2 /\ s[1] \in Schemes /\ s[2] \notin Ports \cup Whitespace
    THEN Some(<<IF s[2] \in Schemes THEN SchemeName(s[2]) ELSE s[2]>>)
    ELSE NoneV

\* parsed.port
UrlPort(s) ==
    IF Len(s) >= 3 /\ s[1] \in Schemes /\ s[2] \notin Schemes \cup Ports \cup Whitespace
       /\ s[3] \in Ports
    THEN Some(<<s[3]>>)
    ELSE NoneV

-----------------------------------------------------------------------------
(* Configuration and requests the model draws from *)

PLACEHOLDER_KEY == <<"SUA_CHAVE_API_PRO">>
DEFAULT_TARGET == <<"https://shopee.com.br">>
DEFAULT_BROWSER == <<"firefox">>
DEFAULT_LOCALE == <<"pt-BR">>

ApiKeyValues == {NoneV, Some(<<>>), Some(PLACEHOLDER_KEY), Some(<<"sk-live">>)}
TargetValues == {NoneV, Some(<<>>)}
ProxyUrlValues == {NoneV, Some(<<" ", "socks5://", "198.51.100.7", ":1080">>)}
RouterValues ==
    { NoneV,
      Some(<<"router.local">>),
      Some(<<"socks5://", "203.0.113.4", ":1080">>),
      Some(<<"socks5://">>),
      Some(<<"http://", "[bad">>) }
FastcloudValues ==
    { <<NoneV, NoneV>>,
      <<Some(<<"https://api.fastcloud/router">>), NoneV>>,
      <<Some(<<"https://api.fastcloud/router">>), Some(<<"tok">>)>> }
FlagValues == {NoneV, Some(<<" ", "On">>)}

EnvChoices ==
    { [ NOTTE_API_KEY        |-> k,
        TARGET_URL           |-> t,
        HEADLESS             |-> NoneV,
        BROWSER_TYPE         |-> NoneV,
        LOCALE               |-> NoneV,
        MCP_PROXY_URL        |-> p,
        MCP_ROUTER_HOSTNAME  |-> r,
        FASTCLOUD_API_URL    |-> f[1],
        FASTCLOUD_API_TOKEN  |-> f[2],
        FORCE_USE_MCP_ROUTER |-> fo,
        SKIP_GEO_CHECK       |-> NoneV ] :
        k \in ApiKeyValues, t \in TargetValues, p \in ProxyUrlValues,
        r \in RouterValues, f \in FastcloudValues, fo \in FlagValues }

\* Optional[bool] parameters: "none", "true", "false"
NoArgs ==
    [ target_url |-> NoneV, headless |-> "none", browser_type |-> NoneV,
      locale |-> NoneV, use_mcp_router |-> "none", skip_geo_check |-> "none" ]

Requests ==
    { NoArgs,
      [NoArgs EXCEPT !.target_url = Some(<<"https://example.com.br">>),
                     !.browser_type = Some(<<"netscape">>)],
      [NoArgs EXCEPT !.use_mcp_router = "true", !.skip_geo_check = "true"],
      [NoArgs EXCEPT !.use_mcp_router = "false", !.skip_geo_check = "true"] }

-----------------------------------------------------------------------------
(* State of one run_notte invocation *)

NoProxy == [kind |-> "none", url |-> <<>>]
NoResult == [status |-> "none"]

NoFinal ==
    [ api_key |-> <<>>, target_url |-> <<>>, browser_type |-> <<>>, headless |-> FALSE,
      locale |-> <<>>, mcp_proxy_url |-> <<>>, mcp_router_hostname |-> <<>>,
      fastcloud_api_url |-> <<>>, fastcloud_api_token |-> <<>>,
      skip_geo_check |-> FALSE, force_use_mcp_router |-> FALSE ]

IdleCall ==
    [ pc          |-> "idle",
      args        |-> NoFinal,     \* the arguments of _run_notte_sync
      proxies_br  |-> NoProxy,
      candidates  |-> <<>>,
      i           |-> 0,           \* position of the for loop over candidates
      proxies_obj |-> NoProxy,
      last_err    |-> NoneV,
      recorded    |-> <<>>,        \* history: every value assigned to last_err
      result      |-> NoResult,    \* the dict returned to the caller
      log         |-> <<>> ]       \* history: collaborator invocations of this call

\* One collaborator invocation: op, the candidate position k (0: none/primary),
\* its source, whether it succeeded, the proxy environment it ran under (and who
\* wrote it), and the country it observed.
Ev(op, k, src, ok, country) ==
    [ op |-> op, k |-> k, src |-> src, ok |-> ok, via |-> proxyEnv, by |-> envWriter,
      country |-> country ]

Logged(c, e) == [c EXCEPT !.log = Append(@, e)]

Init ==
    /\ osenv \in EnvChoices
    /\ proxyEnv \in {NoneV, Some(<<"http://", "corp-proxy", ":1080">>)}
    /\ envWriter = 0
    /\ pool = {1}
    /\ call = [w \in Workers |-> IdleCall]

-----------------------------------------------------------------------------
(* run_notte *)

\* Optional[bool] parameter with an environment default
FinalFlag(param, name) ==
    IF param = "none" THEN StrToBool(Some(Getenv(name, <<"False">>)), FALSE)
    ELSE param = "true"

\* "x or y" on Optional[str] / str
OrElse(o, dflt) == IF Truthy(o) THEN o.val ELSE dflt

\* variant: the placeholder key is not recognised
ApiKeyEmptyOnly(api_key) == api_key = <<>>

ApiKeyMissing(api_key) == api_key = <<>> \/ api_key = PLACEHOLDER_KEY

FinalArgs(req) ==
    [ api_key              |-> Getenv("NOTTE_API_KEY", <<>>),
      target_url           |-> OrElse(req.target_url, Getenv("TARGET_URL", DEFAULT_TARGET)),
      browser_type         |-> OrElse(req.browser_type, Getenv("BROWSER_TYPE", DEFAULT_BROWSER)),
      headless             |-> IF req.headless = "none"
                               THEN StrToBool(Some(Getenv("HEADLESS", <<"False">>)), FALSE)
                               ELSE req.headless = "true",
      locale               |-> OrElse(req.locale, Getenv("LOCALE", DEFAULT_LOCALE)),
      mcp_proxy_url        |-> Strip(Getenv("MCP_PROXY_URL", <<>>)),
      mcp_router_hostname  |-> Strip(Getenv("MCP_ROUTER_HOSTNAME", <<>>)),
      fastcloud_api_url    |-> Strip(Getenv("FASTCLOUD_API_URL", <<>>)),
      fastcloud_api_token  |-> Strip(Getenv("FASTCLOUD_API_TOKEN", <<>>)),
      skip_geo_check       |-> FinalFlag(req.skip_geo_check, "SKIP_GEO_CHECK"),
      force_use_mcp_router |-> FinalFlag(req.use_mcp_router, "FORCE_USE_MCP_ROUTER") ]

\* the "error" value of a dict is Some(text), or None (last_err never assigned)
KeyError == [status |-> "error", error |-> Some(<<"NOTTE_API_KEY nao definido.">>)]

\* The tool is invoked: the credential is checked, the arguments are merged with
\* the environment and _run_notte_sync is handed to a worker thread.
RunNotte(w) ==
    /\ w \in pool
    /\ call[w].pc = "idle"
    /\ \E req \in Requests :
          call' = [call EXCEPT ![w] =
                     IF ApiKeyMissing(Getenv("NOTTE_API_KEY", <<>>))
                     THEN [@ EXCEPT !.pc = "returned", !.result = KeyError]
                     ELSE [@ EXCEPT !.pc = "client", !.args = FinalArgs(req)]]
    /\ UNCHANGED <<osenv, proxyEnv, envWriter, pool>>

-----------------------------------------------------------------------------
(* _run_notte_sync: client and primary candidate *)

\* client = NotteClient(api_key=api_key): not inside any try
NewClient(w) ==
    /\ call[w].pc = "client"
    /\ \E ok \in BOOLEAN :
          call' = [call EXCEPT ![w] =
                     [Logged(@, Ev("client", 0, "-", ok, <<>>)) EXCEPT
                        !.pc = IF ok THEN "primary" ELSE "raised"]]
    /\ UNCHANGED <<osenv, proxyEnv, envWriter, pool>>

BrProxy == [kind |-> "country", url |-> <<"br">>]

\* variant: force_use_mcp_router is ignored
TryPrimaryAlways(args) == TRUE

\* whether the primary candidate is attempted at all
TryPrimary(args) == ~args.force_use_mcp_router

\* variant: the exception of from_country is not caught
AfterFromCountryFatal(c, ok) ==
    IF ok
    THEN [c EXCEPT !.proxies_br = BrProxy, !.pc = "primary_session"]
    ELSE [c EXCEPT !.pc = "raised"]

\* try: proxies_br = ... except Exception: proxies_br = None; if proxies_br is not None
AfterFromCountry(c, ok) ==
    IF ok
    THEN [c EXCEPT !.proxies_br = BrProxy, !.pc = "primary_session"]
    ELSE [c EXCEPT !.proxies_br = NoProxy, !.pc = "explicit"]

\* proxies_br = NotteProxy.from_country("br"), guarded by force_use_mcp_router
FromCountry(w) ==
    /\ call[w].pc = "primary"
    /\ IF TryPrimary(call[w].args)
       THEN \E ok \in BOOLEAN :
               call' = [call EXCEPT ![w] =
                          AfterFromCountry(Logged(@, Ev("from_country", 0, "primary", ok, <<>>)), ok)]
       ELSE call' = [call EXCEPT ![w].pc = "explicit"]
    /\ UNCHANGED <<osenv, proxyEnv, envWriter, pool>>

OkResult(route, answer) == [status |-> "ok", route |-> route, result |-> answer]

Answer == <<"answer">>

\* variant: the success branch builds the result but does not return
PrimaryOutcomeNoReturn(c, ok) ==
    IF ok
    THEN [c EXCEPT !.pc = "explicit", !.result = OkResult("notte_proxy_br", Answer)]
    ELSE [c EXCEPT !.pc = "explicit"]

\* try: return {"status": "ok", "route": "notte_proxy_br", ...}; except: continue below
PrimaryOutcome(c, ok) ==
    IF ok
    THEN [c EXCEPT !.pc = "returned", !.result = OkResult("notte_proxy_br", Answer)]
    ELSE [c EXCEPT !.pc = "explicit"]

\* _session_with_proxies(proxies_br) inside try/except
PrimarySession(w) ==
    /\ call[w].pc = "primary_session"
    /\ \E ok \in BOOLEAN :
          call' = [call EXCEPT ![w] =
                     PrimaryOutcome(Logged(@, Ev("session", 0, "primary", ok, <<>>)), ok)]
    /\ UNCHANGED <<osenv, proxyEnv, envWriter, pool>>

-----------------------------------------------------------------------------
(* _run_notte_sync: the fallback candidates *)

Cand(url, src) == [url |-> url, src |-> src, isstr |-> TRUE]

\* variant: candidates.insert(0, c)
PrependCandidate(cands, c) == <<c>> \o cands

\* candidates.append(c)
AppendCandidate(cands, c) == Append(cands, c)

\* if mcp_proxy_url: candidates.append(mcp_proxy_url.strip())
BuildExplicit(w) ==
    /\ call[w].pc = "explicit"
    /\ LET url == call[w].args.mcp_proxy_url IN
       call' = [call EXCEPT ![w] =
                  [@ EXCEPT !.pc = "router",
                            !.candidates = IF url # <<>>
                                           THEN AppendCandidate(@, Cand(Strip(url), "explicit"))
                                           ELSE @]]
    /\ UNCHANGED <<osenv, proxyEnv, envWriter, pool>>

\* socket.gethostbyname results the model draws from (None: resolution failed)
DnsAnswers == {NoneV, Some(<<"10.0.0.7">>)}

\* the candidate built from MCP_ROUTER_HOSTNAME, given the DNS answer
RouterCandidate(host, resolved) ==
    IF UrlScheme(host) # <<>> /\ UrlHostname(host).some
    THEN Cand(Strip(host), "router")
    ELSE IF Truthy(resolved)
         THEN Cand(<<"socks5://">> \o resolved.val \o <<":1080">>, "router")
         ELSE Cand(<<"socks5://">> \o host \o <<":1080">>, "router")

\* whether _resolve_hostname is called for this hostname
NeedsDns(host) == ~(UrlScheme(host) # <<>> /\ UrlHostname(host).some)

\* if mcp_router_hostname: urlparse, then as-is or socks5://<resolved|raw>:1080
BuildRouter(w) ==
    /\ call[w].pc = "router"
    /\ LET host == call[w].args.mcp_router_hostname IN
       IF host = <<>>
       THEN call' = [call EXCEPT ![w].pc = "discovery"]
       ELSE IF UrlparseRaises(host)
       THEN call' = [call EXCEPT ![w] =
                       [Logged(@, Ev("urlparse", 0, "router", FALSE, <<>>)) EXCEPT
                          !.pc = "raised"]]
       ELSE \E resolved \in IF NeedsDns(host) THEN DnsAnswers ELSE {NoneV} :
               call' = [call EXCEPT ![w] =
                          [(IF NeedsDns(host)
                            THEN Logged(Logged(@, Ev("urlparse", 0, "router", TRUE, <<>>)),
                                        Ev("dns", 0, "router", resolved.some, <<>>))
                            ELSE Logged(@, Ev("urlparse", 0, "router", TRUE, <<>>))) EXCEPT
                             !.pc = "discovery",
                             !.candidates =
                                 AppendCandidate(@, RouterCandidate(host, resolved))]]
    /\ UNCHANGED <<osenv, proxyEnv, envWriter, pool>>

\* What _discover_mcp_router_via_fastcloud can return: None (request failed, bad
\* status, unparsable or no field), an address, or a JSON value that is no string.
NoField == [has |-> FALSE, val |-> <<>>, isstr |-> TRUE]
StrField(s) == [has |-> TRUE, val |-> s, isstr |-> TRUE]
NumField(s) == [has |-> TRUE, val |-> s, isstr |-> FALSE]
FieldTruthy(f) == f.has /\ f.val # <<>>

RouterAddress == <<"socks5://", "192.0.2.9", ":1080">>

\* What the FastCloud endpoint can do: no answer, an error status, a body that is
\* no JSON, and JSON objects with and without the two fields.
FastcloudResponses ==
    { [reached |-> FALSE, status |-> 0, json |-> FALSE,
       router_address |-> NoField, proxy_url |-> NoField],
      [reached |-> TRUE, status |-> 503, json |-> FALSE,
       router_address |-> NoField, proxy_url |-> NoField],
      [reached |-> TRUE, status |-> 200, json |-> FALSE,
       router_address |-> NoField, proxy_url |-> NoField],
      [reached |-> TRUE, status |-> 200, json |-> TRUE,
       router_address |-> NoField, proxy_url |-> NoField],
      [reached |-> TRUE, status |-> 200, json |-> TRUE,
       router_address |-> StrField(<<>>), proxy_url |-> NoField],
      [reached |-> TRUE, status |-> 200, json |-> TRUE,
       router_address |-> StrField(RouterAddress), proxy_url |-> NoField],
      [reached |-> TRUE, status |-> 200, json |-> TRUE,
       router_address |-> NoField, proxy_url |-> StrField(RouterAddress)],
      [reached |-> TRUE, status |-> 200, json |-> TRUE,
       router_address |-> NumField(<<"1080">>), proxy_url |-> NoField] }

NotDiscovered == [got |-> FALSE, val |-> <<>>, isstr |-> TRUE]

\* requests.get, raise_for_status, r.json() inside try/except returning None;
\* addr = payload.get("router_address") or payload.get("proxy_url")
DiscoverResult(r) ==
    IF ~r.reached \/ r.status >= 400 \/ ~r.json
    THEN NotDiscovered
    ELSE LET addr == IF FieldTruthy(r.router_address) THEN r.router_address
                     ELSE r.proxy_url
         IN IF FieldTruthy(addr)
            THEN [got |-> TRUE, val |-> addr.val, isstr |-> addr.isstr]
            ELSE NotDiscovered

Discoveries == {DiscoverResult(r) : r \in FastcloudResponses}

NoCandidatesResult ==
    [ status |-> "error", route |-> "no_mcp_candidates",
      error |-> Some(<<"Nenhum candidato de MCP router encontrado">>) ]

\* variant: the emptiness test looks at MCP_PROXY_URL instead of the list
AfterCandidatesByUrl(c) ==
    IF c.args.mcp_proxy_url = <<>>
    THEN [c EXCEPT !.pc = "returned", !.result = NoCandidatesResult]
    ELSE [c EXCEPT !.pc = "apply", !.i = 1]

\* if not candidates: return the no_mcp_candidates error; else enter the loop
AfterCandidates(c) ==
    IF c.candidates = <<>>
    THEN [c EXCEPT !.pc = "returned", !.result = NoCandidatesResult]
    ELSE [c EXCEPT !.pc = "apply", !.i = 1]

\* variant: the lookup is made whenever the endpoint is set
WantsDiscoveryByUrl(args) == args.fastcloud_api_url # <<>>

\* whether the discovery lookup is made
WantsDiscovery(args) == args.fastcloud_api_url # <<>> /\ args.fastcloud_api_token # <<>>

\* discovery (if url and token are set), then the emptiness check
Discover(w) ==
    /\ call[w].pc = "discovery"
    /\ IF WantsDiscovery(call[w].args)
       THEN \E d \in Discoveries :
               call' = [call EXCEPT ![w] =
                          AfterCandidates(
                            [Logged(@, Ev("discover", 0, "discovery", d.got, <<>>)) EXCEPT
                               !.candidates =
                                   IF d.got
                                   THEN AppendCandidate(@,
                                          [url |-> d.val, src |-> "discovery",
                                           isstr |-> d.isstr])
                                   ELSE @])]
       ELSE call' = [call EXCEPT ![w] = AfterCandidates(@)]
    /\ UNCHANGED <<osenv, proxyEnv, envWriter, pool>>

-----------------------------------------------------------------------------
(* _run_notte_sync: the loop over the candidates *)

\* What _make_notte_proxy_from_url(url) can return: a proxy object (from_url, or
\* from_host_port when the URL has host and port), or None when the SDK offers
\* neither constructor or the constructor raises.
MakeProxyOutcomes(url) ==
    IF url = <<>> THEN {NoProxy}
    ELSE {[kind |-> "url", url |-> Strip(url)], NoProxy}

\* _set_env_proxy_vars(url): the value of the six proxy variables afterwards
SetEnvProxyVars(env, url) == IF url = <<>> THEN env ELSE Some(url)

\* variant: the final return carries no route
AllFailedResultNoRoute(last_err) == [status |-> "error", error |-> last_err]

\* the for loop moves to the next candidate, or falls out to the final return
AllFailedResult(last_err) ==
    [status |-> "error", route |-> "mcp_all_failed", error |-> last_err]

NextCandidate(c) ==
    IF c.i < Len(c.candidates)
    THEN [c EXCEPT !.pc = "apply", !.i = @ + 1]
    ELSE [c EXCEPT !.pc = "returned", !.result = AllFailedResult(c.last_err)]

\* variant: the egress is observed whatever skip_geo_check says
AfterApplyAlwaysGeo(args) == "geo"

\* if not skip_geo_check: the geo check; otherwise straight to the session
AfterApply(args) == IF args.skip_geo_check THEN "session" ELSE "geo"

\* proxies_obj = _make_notte_proxy_from_url(cand); if None: _set_env_proxy_vars(cand)
Apply(w) ==
    /\ call[w].pc = "apply"
    /\ LET c == call[w]
           cand == c.candidates[c.i]
       IN IF ~cand.isstr
          THEN \* url.strip() on a value that is no string: AttributeError
               /\ call' = [call EXCEPT ![w] =
                             [Logged(@, Ev("apply", c.i, cand.src, FALSE, <<>>)) EXCEPT
                                !.pc = "raised"]]
               /\ UNCHANGED <<proxyEnv, envWriter>>
          ELSE \E obj \in MakeProxyOutcomes(cand.url) :
                  /\ proxyEnv' = IF obj = NoProxy
                                 THEN SetEnvProxyVars(proxyEnv, cand.url)
                                 ELSE proxyEnv
                  /\ envWriter' = IF obj = NoProxy /\ cand.url # <<>> THEN w ELSE envWriter
                  /\ call' = [call EXCEPT ![w] =
                                [Logged(@, Ev("apply", c.i, cand.src, obj # NoProxy, <<>>))
                                 EXCEPT !.proxies_obj = obj,
                                        !.pc = AfterApply(c.args)]]
    /\ UNCHANGED <<osenv, pool>>

\* What _is_ip_outside_brazil can return: {"ok": False}, or {"ok": True, "data": ...}
\* with a country, or with data whose country cannot be lower-cased.
GeoOutcomes ==
    { [ok |-> FALSE, wellformed |-> TRUE, country |-> <<>>, ip |-> <<>>],
      [ok |-> TRUE, wellformed |-> TRUE, country |-> <<"BR">>, ip |-> <<"200.1.2.3">>],
      [ok |-> TRUE, wellformed |-> TRUE, country |-> <<"br">>, ip |-> <<"200.1.2.3">>],
      [ok |-> TRUE, wellformed |-> TRUE, country |-> <<"US">>, ip |-> <<"8.8.8.8">>],
      [ok |-> TRUE, wellformed |-> FALSE, country |-> <<>>, ip |-> <<>>] }

\* variant: the country is compared without lower()
IsHomeCountryExact(country) == country = <<"br">>

\* country = geo["data"].get("country", "").lower(); country == "br"
IsHomeCountry(country) == Lower(country) = <<"br">>

\* variant: a failed observation rejects the candidate too
GeoRejectsUnknown(geo) == ~geo.ok \/ Lower(geo.country) = <<"br">>

\* the gate: reject only on a successful observation of the home country
GeoRejects(geo) == geo.ok /\ IsHomeCountry(geo.country)

GeoReason(cand, ip) ==
    Some(<<"candidate ">> \o cand.url \o <<" resulted in BR IP ">> \o ip)

\* last_err = text, for candidate c.i
Record(c, kind, text) ==
    [c EXCEPT !.last_err = text,
              !.recorded = Append(@, [k |-> c.i, kind |-> kind, text |-> text.val])]

\* geo = _is_ip_outside_brazil() and the decision on it
Observe(w) ==
    /\ call[w].pc = "geo"
    /\ LET c == call[w]
           cand == c.candidates[c.i]
       IN \E geo \in GeoOutcomes :
             LET c1 == Logged(c, Ev("observe", c.i, cand.src, geo.ok, geo.country)) IN
             call' = [call EXCEPT ![w] =
                        IF geo.ok /\ ~geo.wellformed
                        THEN [c1 EXCEPT !.pc = "raised"]
                        ELSE IF GeoRejects(geo)
                        THEN NextCandidate(Record(c1, "geo", GeoReason(cand, geo.ip)))
                        ELSE [c1 EXCEPT !.pc = "session"]]
    /\ UNCHANGED <<osenv, proxyEnv, envWriter, pool>>

Traceback == Some(<<"Traceback (most recent call last)">>)

FallbackResult(cand, answer) ==
    [status |-> "ok", route |-> "mcp_proxy_used", candidate |-> cand.url, result |-> answer]

\* variant: a successful session is kept as the result but the loop goes on
FallbackOutcomeContinues(c, cand, ok) ==
    IF ok
    THEN IF c.i < Len(c.candidates)
         THEN [c EXCEPT !.pc = "apply", !.i = @ + 1,
                        !.result = FallbackResult(cand, Answer)]
         ELSE [c EXCEPT !.pc = "returned", !.result = FallbackResult(cand, Answer)]
    ELSE NextCandidate(Record(c, "session", Traceback))

\* try: return {... "mcp_proxy_used" ...}  except Exception: last_err = ...; continue
FallbackOutcome(c, cand, ok) ==
    IF ok
    THEN [c EXCEPT !.pc = "returned", !.result = FallbackResult(cand, Answer)]
    ELSE NextCandidate(Record(c, "session", Traceback))

\* _session_with_proxies(proxies_obj) inside try/except
FallbackSession(w) ==
    /\ call[w].pc = "session"
    /\ LET c == call[w]
           cand == c.candidates[c.i]
       IN \E ok \in BOOLEAN :
             LET c1 == Logged(c, Ev("session", c.i, cand.src, ok, <<>>)) IN
             call' = [call EXCEPT ![w] = FallbackOutcome(c1, cand, ok)]
    /\ UNCHANGED <<osenv, proxyEnv, envWriter, pool>>

-----------------------------------------------------------------------------

Next ==
    \E w \in Workers :
        \/ RunNotte(w)
        \/ NewClient(w)
        \/ FromCountry(w)
        \/ PrimarySession(w)
        \/ BuildExplicit(w)
        \/ BuildRouter(w)
        \/ Discover(w)
        \/ Apply(w)
        \/ Observe(w)
        \/ FallbackSession(w)

Spec == Init /\ [][Next]_vars

-----------------------------------------------------------------------------
(* Properties *)

Returned(c) == c.pc = "returned"

\* the route of a returned dict ("none" when the dict has no route key)
RouteOf(r) == IF "route" \in DOMAIN r THEN r.route ELSE "none"

Positions(c) == 1..Len(c.log)

Happened(c, op) == \E p \in Positions(c) : c.log[p].op = op

\* operations that belong to the fallback path
FallbackOps == {"urlparse", "dns", "discover", "apply", "observe"}

\* operations that attempt a fallback candidate
AttemptOps == {"apply", "observe", "session"}

IsAttempt(e) == e.op \in AttemptOps /\ e.k > 0

SessionCount(c) == Cardinality({p \in Positions(c) : c.log[p].op = "session"})

PrimarySucceeded(c) ==
    /\ ~c.args.force_use_mcp_router
    /\ \E p \in Positions(c) :
          c.log[p].op = "from_country" /\ c.log[p].ok
    /\ \E p \in Positions(c) :
          c.log[p].op = "session" /\ c.log[p].src = "primary" /\ c.log[p].ok

\* C1: a call without forced fallback whose primary candidate is obtained and whose
\* session through it succeeds returns status ok with route notte_proxy_br, and
\* none of the fallback operations (URL parsing, DNS, discovery, applying a
\* candidate, egress observation) happens in that call.
C1_PrimarySuccessIsDirect ==
    \A w \in Workers :
        PrimarySucceeded(call[w]) =>
            /\ Returned(call[w])
            /\ call[w].result = OkResult("notte_proxy_br", Answer)
            /\ \A p \in Positions(call[w]) :
                  /\ call[w].log[p].op \notin FallbackOps
                  /\ call[w].log[p].k = 0
            /\ call[w].candidates = <<>>

C1_Witness ==
    \E w \in Workers : PrimarySucceeded(call[w]) /\ Returned(call[w])

SourceRank(src) ==
    CASE src = "explicit" -> 1
      [] src = "router" -> 2
      [] src = "discovery" -> 3
      [] OTHER -> 0

\* C2: in the fallback scan the candidates are attempted in the order explicit URL,
\* router hostname, discovery: every attempt event belongs to the candidate at its
\* position of the list as it is now, positions never go back, and a candidate of
\* an earlier source is never attempted after one of a later source.
C2_FallbackOrder ==
    \A w \in Workers :
        LET c == call[w] IN
        \A p \in Positions(c) :
            IsAttempt(c.log[p]) =>
                /\ c.log[p].k \in 1..Len(c.candidates)
                /\ c.candidates[c.log[p].k].src = c.log[p].src
                /\ \A q \in Positions(c) :
                      (q > p /\ IsAttempt(c.log[q])) =>
                          /\ c.log[q].k >= c.log[p].k
                          /\ SourceRank(c.log[q].src) >= SourceRank(c.log[p].src)
                          /\ (c.log[q].k > c.log[p].k =>
                                SourceRank(c.log[q].src) > SourceRank(c.log[p].src))

C2_Witness ==
    \E w \in Workers :
        LET c == call[w] IN
        /\ \E p \in Positions(c) :
              c.log[p].op = "session" /\ c.log[p].src = "explicit"
        /\ \E p \in Positions(c) :
              c.log[p].op = "session" /\ c.log[p].src = "router"
        /\ \E p \in Positions(c) :
              c.log[p].op = "session" /\ c.log[p].src = "discovery"

\* spellings of the home country code
HomeSpellings == {<<"br">>, <<"BR">>, <<"Br">>, <<"bR">>}

ObservedHome(e) == e.op = "observe" /\ e.ok /\ e.country \in HomeSpellings

C4_NoCandidatesNoSessionAtAll ==
    \A w \in Workers :
        (Returned(call[w]) /\ RouteOf(call[w].result) = "no_mcp_candidates") =>
            /\ call[w].candidates = <<>>
            /\ SessionCount(call[w]) = 0

\* C4 amended: a call that returns no_mcp_candidates had an empty candidate list and
\* made no session attempt through a fallback candidate; the only session it can
\* have made is the one through the primary candidate, which failed.
C4_NoCandidatesNoFallbackSession ==
    \A w \in Workers :
        LET c == call[w] IN
        (Returned(c) /\ RouteOf(c.result) = "no_mcp_candidates") =>
            /\ c.candidates = <<>>
            /\ c.i = 0
            /\ \A p \in Positions(c) :
                  c.log[p].op = "session" => (c.log[p].src = "primary" /\ ~c.log[p].ok)
            /\ SessionCount(c) <= 1

C4_Witness ==
    \E w \in Workers :
        /\ Returned(call[w])
        /\ RouteOf(call[w].result) = "no_mcp_candidates"
        /\ SessionCount(call[w]) = 1

\* every candidate of a non-empty list was geo-rejected or failed its session
AllRejectedOrFailed(c) ==
    /\ Returned(c)
    /\ c.candidates # <<>>
    /\ \A k \in 1..Len(c.candidates) :
          \E p \in Positions(c) :
              /\ c.log[p].k = k
              /\ \/ ObservedHome(c.log[p])
                 \/ c.log[p].op = "session" /\ ~c.log[p].ok

\* the reasons an error payload holds: the code stores one text (or None)
PayloadReasons(r) == IF r.error.some THEN <<r.error.val>> ELSE <<>>

\* C5 as stated: when every candidate of a non-empty list is geo-rejected or fails
\* its session, the call returns mcp_all_failed and the error payload holds exactly
\* one reason per candidate tried, in the order tried.
C5_AllFailedHoldsEveryReason ==
    \A w \in Workers :
        LET c == call[w] IN
        AllRejectedOrFailed(c) =>
            /\ RouteOf(c.result) = "mcp_all_failed"
            /\ Len(c.recorded) = Len(c.candidates)
            /\ \A k \in 1..Len(c.recorded) : c.recorded[k].k = k
            /\ PayloadReasons(c.result) = [k \in 1..Len(c.recorded) |-> c.recorded[k].text]

ObservationFailed(e) == e.op = "observe" /\ ~e.ok

\* C6: a failed egress observation does not reject its candidate: no geo rejection
\* is recorded for that candidate, and the next thing the resolver does is run the
\* session for that same candidate.
C6_FailedObservationProceeds ==
    \A w \in Workers :
        LET c == call[w] IN
        \A p \in Positions(c) :
            ObservationFailed(c.log[p]) =>
                /\ \A r \in 1..Len(c.recorded) :
                      ~(c.recorded[r].k = c.log[p].k /\ c.recorded[r].kind = "geo")
                /\ IF p < Len(c.log)
                   THEN c.log[p + 1].op = "session" /\ c.log[p + 1].k = c.log[p].k
                   ELSE c.pc = "session" /\ c.i = c.log[p].k

C6_Witness ==
    \E w \in Workers :
        LET c == call[w] IN
        \E p \in Positions(c) :
            /\ ObservationFailed(c.log[p])
            /\ p < Len(c.log)
            /\ c.log[p + 1].op = "session"

FallbackRoutes == {"mcp_proxy_used", "no_mcp_candidates", "mcp_all_failed"}

\* C7: in a resolution call with force_use_mcp_router the home-country provider is
\* never queried, nothing is attempted through a primary candidate, and a returned
\* outcome has one of the routes mcp_proxy_used, no_mcp_candidates, mcp_all_failed.
C7_ForcedFallbackSkipsPrimary ==
    \A w \in Workers :
        LET c == call[w] IN
        (c.pc # "idle" /\ c.args.force_use_mcp_router) =>
            /\ ~Happened(c, "from_country")
            /\ \A p \in Positions(c) : c.log[p].src # "primary"
            /\ c.proxies_br = NoProxy
            /\ Returned(c) => RouteOf(c.result) \in FallbackRoutes

C7_Witness ==
    \E w \in Workers :
        /\ call[w].args.force_use_mcp_router
        /\ Returned(call[w])
        /\ RouteOf(call[w].result) = "mcp_proxy_used"

\* NOTTE_API_KEY is unset, empty or the placeholder
KeyUnusable ==
    \/ ~osenv["NOTTE_API_KEY"].some
    \/ osenv["NOTTE_API_KEY"].val = <<>>
    \/ osenv["NOTTE_API_KEY"].val = <<"SUA_CHAVE_API_PRO">>

\* C8: with NOTTE_API_KEY unset, empty or the placeholder, an invoked run_notte has
\* already returned an error dict, and the resolver never started: no argument was
\* passed on, no collaborator was invoked, no candidate computed, nothing recorded.
C8_MissingKeyReturnsAtOnce ==
    \A w \in Workers :
        LET c == call[w] IN
        (c.pc # "idle" /\ KeyUnusable) =>
            /\ Returned(c)
            /\ c.result.status = "error"
            /\ "error" \in DOMAIN c.result
            /\ c.args = NoFinal
            /\ c.log = <<>>
            /\ c.candidates = <<>>
            /\ c.recorded = <<>>

C8_Witness ==
    \E w \in Workers :
        /\ osenv["NOTTE_API_KEY"] = Some(<<"SUA_CHAVE_API_PRO">>)
        /\ Returned(call[w])
        /\ call[w].result.status = "error"

\* browser types a session can be opened with
RecognizedBrowsers == {<<"firefox">>, <<"chromium">>, <<"chrome">>}

\* a started call whose effective target URL is empty or whose effective browser
\* type is not recognised
InvalidRequest(c) ==
    /\ c.args # NoFinal
    /\ \/ c.args.target_url = <<>>
       \/ c.args.browser_type \notin RecognizedBrowsers

\* C9 as stated: a request with an empty effective target URL or an unrecognised
\* browser type is rejected with an error before the resolver starts: no primary
\* candidate is requested, no fallback candidate computed, no session attempted.
C9_InvalidRequestRejected ==
    \A w \in Workers :
        LET c == call[w] IN
        InvalidRequest(c) =>
            /\ ~Happened(c, "from_country")
            /\ c.candidates = <<>>
            /\ SessionCount(c) = 0
            /\ Returned(c) => (c.result.status = "error" /\ RouteOf(c.result) = "none")

\* C10 as stated: whatever the collaborators do, no exception leaves the run
\* operation, and what it returns is a dict with status ok or error.
C10_NoExceptionEscapes ==
    \A w \in Workers :
        /\ call[w].pc # "raised"
        /\ Returned(call[w]) => call[w].result.status \in {"ok", "error"}

OkRoutes == {"notte_proxy_br", "mcp_proxy_used"}
ErrorRoutes == {"no_mcp_candidates", "mcp_all_failed"}

HasKey(r, key) == key \in DOMAIN r

\* the shape {status, route, result|error} with status and route in agreement
WellShaped(r) ==
    /\ HasKey(r, "route")
    /\ r.route \in OkRoutes \cup ErrorRoutes
    /\ r.status \in {"ok", "error"}
    /\ r.status = "ok" <=> r.route \in OkRoutes
    /\ r.status = "error" <=> r.route \in ErrorRoutes
    /\ r.status = "ok" => (HasKey(r, "result") /\ ~HasKey(r, "error"))
    /\ r.status = "error" => (HasKey(r, "error") /\ r.error.some /\ ~HasKey(r, "result"))

\* C11 as stated: every dict the run operation returns has the shape
\* {status, route, result|error}, with a route among the four routes that agrees
\* with the status.
C11_EveryResultHasRoute ==
    \A w \in Workers : Returned(call[w]) => WellShaped(call[w].result)

\* C11 amended: every dict returned once the credential check has passed has the
\* shape {status, route, result|error} with status and route in agreement; the
\* dict returned for an unusable NOTTE_API_KEY has status error and an error and
\* no route and no result.
C11_ResolverResultShape ==
    \A w \in Workers :
        Returned(call[w]) =>
            IF KeyUnusable
            THEN /\ DOMAIN call[w].result = {"status", "error"}
                 /\ call[w].result.status = "error"
                 /\ call[w].result.error.some
            ELSE WellShaped(call[w].result)

C11_Witness ==
    \E w \in Workers :
        /\ Returned(call[w])
        /\ ~KeyUnusable
        /\ RouteOf(call[w].result) = "mcp_all_failed"

-----------------------------------------------------------------------------
(* Two calls one after the other, with collaborators that answer the same       *)
(* question the same way: worker 1 serves the first call, worker 2 the second.  *)

Done(c) == c.pc \in {"returned", "raised"}

RepeatEnvChoices ==
    { e \in EnvChoices :
        /\ e.NOTTE_API_KEY = Some(<<"sk-live">>)
        /\ e.TARGET_URL = NoneV
        /\ e.MCP_PROXY_URL # NoneV
        /\ e.MCP_ROUTER_HOSTNAME \in {NoneV, Some(<<"router.local">>)}
        /\ e.FASTCLOUD_API_TOKEN = NoneV }

InitRepeat ==
    /\ osenv \in RepeatEnvChoices
    /\ proxyEnv = NoneV
    /\ envWriter = 0
    /\ pool = {1, 2}
    /\ call = [w \in Workers |-> IdleCall]

\* the second call starts after the first has ended, with the same arguments
SecondAfterFirst ==
    call[2].pc # "idle" => (Done(call[1]) /\ call[2].args = call[1].args)

\* what a collaborator is asked: the egress oracle is asked through the proxy
\* environment in effect, every other collaborator about a candidate position
SameQuestion(e1, e2) ==
    /\ e1.op = e2.op
    /\ IF e1.op = "observe" THEN e1.via = e2.via ELSE e1.k = e2.k /\ e1.src = e2.src

SameAnswer(e1, e2) == e1.ok = e2.ok /\ e1.country = e2.country

EventsOf(c) == {c.log[p] : p \in Positions(c)}

\* every collaborator is a function of what it is asked
SameWorld ==
    \A e1 \in EventsOf(call[1]) \cup EventsOf(call[2]) :
        \A e2 \in EventsOf(call[1]) \cup EventsOf(call[2]) :
            SameQuestion(e1, e2) => SameAnswer(e1, e2)

NextRepeat == Next /\ SecondAfterFirst' /\ SameWorld'

SpecRepeat == InitRepeat /\ [][NextRepeat]_vars

IsObserve(e) == e.op = "observe"

\* the candidates tried by a call, in order: operation, position and result
Tried(c) ==
    LET a == SelectSeq(c.log, IsAttempt)
    IN [p \in 1..Len(a) |-> [op |-> a[p].op, k |-> a[p].k, src |-> a[p].src, ok |-> a[p].ok]]

\* the egress paths a call observed through, in order
ObservedPaths(c) ==
    LET a == SelectSeq(c.log, IsObserve) IN [p \in 1..Len(a) |-> a[p].via]

\* C12 as stated: a second call with the same input and the same collaborator
\* behaviour ends as the first did: same outcome, same candidates tried, same
\* egress paths observed.
C12_SecondCallSameOutcome ==
    (Done(call[1]) /\ Done(call[2])) =>
        /\ call[2].pc = call[1].pc
        /\ call[2].result = call[1].result
        /\ Tried(call[2]) = Tried(call[1])
        /\ ObservedPaths(call[2]) = ObservedPaths(call[1])

-----------------------------------------------------------------------------
(* Two calls at the same time, each on its own worker thread *)

ConcurrentEnvChoices ==
    { e \in EnvChoices :
        /\ e.NOTTE_API_KEY = Some(<<"sk-live">>)
        /\ e.TARGET_URL = NoneV
        /\ e.MCP_PROXY_URL # NoneV
        /\ e.MCP_ROUTER_HOSTNAME = NoneV
        /\ e.FASTCLOUD_API_URL = NoneV }

InitConcurrent ==
    /\ osenv \in ConcurrentEnvChoices
    /\ proxyEnv = NoneV
    /\ envWriter = 0
    /\ pool = {1, 2}
    /\ call = [w \in Workers |-> IdleCall]

SpecConcurrent == InitConcurrent /\ [][Next]_vars

\* an egress observation or session attempt of worker w for a fallback candidate
\* that ran under a proxy environment written by the other worker's call
UnderOthersProxy(w, e) ==
    /\ e.op \in {"observe", "session"}
    /\ e.k > 0
    /\ e.by \in Workers \ {w}

\* C13 as stated (its first part, which the second rests on): with two calls
\* running at once, no egress observation and no session attempt of one call runs
\* under a proxy configuration applied by the other call.
C13_NoSharedProxyState ==
    \A w \in Workers :
        \A p \in Positions(call[w]) : ~UnderOthersProxy(w, call[w].log[p])

-----------------------------------------------------------------------------
(* The caller cancels a call while its worker thread is running *)

InProgress(c) == c.pc \notin {"idle", "returned", "raised"}

Cancelled(c) == Happened(c, "cancel")

\* The task awaiting anyio.to_thread.run_sync is cancelled.  The thread is not
\* interrupted and _run_notte_sync never looks for a cancellation: the call keeps
\* its position and every later step stays enabled.
Cancel(w) ==
    /\ w \in pool
    /\ InProgress(call[w])
    /\ ~Cancelled(call[w])
    /\ call' = [call EXCEPT ![w] = Logged(@, Ev("cancel", @.i, "-", TRUE, <<>>))]
    /\ UNCHANGED <<osenv, proxyEnv, envWriter, pool>>

InitCancel ==
    /\ osenv \in RepeatEnvChoices
    /\ proxyEnv = NoneV
    /\ envWriter = 0
    /\ pool = {1}
    /\ call = [w \in Workers |-> IdleCall]

NextCancel == Next \/ \E w \in Workers : Cancel(w)

SpecCancel == InitCancel /\ [][NextCancel]_vars

\* a session attempt for a candidate is logged after the cancellation
SessionAfterCancel(c) ==
    \E p, q \in Positions(c) :
        /\ p < q
        /\ c.log[p].op = "cancel"
        /\ c.log[q].op = "session"

\* C14 as stated: once the caller has cancelled a call in progress, no session
\* attempt is started for any candidate, and when the call stops the process-wide
\* proxy variables do not hold a candidate applied by the cancelled call.
C14_CancelStopsResolution ==
    \A w \in Workers :
        Cancelled(call[w]) =>
            /\ ~SessionAfterCancel(call[w])
            /\ Done(call[w]) => envWriter # w

-----------------------------------------------------------------------------
(* The proxy configuration in effect for a candidate *)

\* the requests of _is_ip_outside_brazil take their proxy from the process
\* environment only; a session takes the proxy object when one was built
AppliedAsObject(c, k) ==
    \E p \in Positions(c) : c.log[p].op = "apply" /\ c.log[p].k = k /\ c.log[p].ok

InEffectIsCandidate(c, e) ==
    \/ e.via = Some(c.candidates[e.k].url)
    \/ e.op = "session" /\ AppliedAsObject(c, e.k)

\* C15 as stated: whenever the egress observation or the session attempt of
\* fallback candidate k is performed, the proxy configuration in effect is that of
\* candidate k, never one left by an earlier candidate or inherited from before
\* the call.
C15_ConfigurationIsCandidates ==
    \A w \in Workers :
        \A p \in Positions(call[w]) :
            LET e == call[w].log[p] IN
            (e.op \in {"observe", "session"} /\ e.k > 0) => InEffectIsCandidate(call[w], e)

-----------------------------------------------------------------------------
(* The first successful fallback session ends the scan *)

FallbackSuccess(e) == e.op = "session" /\ e.k > 0 /\ e.ok

\* candidate k was rejected by the gate or failed its session before position p
RejectedOrFailedBefore(c, k, p) ==
    \E q \in 1..(p - 1) :
        /\ c.log[q].k = k
        /\ \/ ObservedHome(c.log[q])
           \/ c.log[q].op = "session" /\ ~c.log[q].ok

SuccessfulSessions(c) == {p \in Positions(c) : c.log[p].op = "session" /\ c.log[p].ok}

\* C16: a successful session for fallback candidate k is the last thing the call
\* does: it has returned status ok, route mcp_proxy_used and candidate k with the
\* session's answer, every candidate before k was rejected by the gate or failed
\* its session, nothing is applied, observed or run afterwards, and the call has
\* at most one successful session.
C16_FirstSuccessIsTerminal ==
    \A w \in Workers :
        LET c == call[w] IN
        /\ Cardinality(SuccessfulSessions(c)) <= 1
        /\ \A p \in Positions(c) :
              FallbackSuccess(c.log[p]) =>
                 /\ p = Len(c.log)
                 /\ Returned(c)
                 /\ c.result = FallbackResult(c.candidates[c.log[p].k], Answer)
                 /\ c.i = c.log[p].k
                 /\ \A k \in 1..(c.log[p].k - 1) : RejectedOrFailedBefore(c, k, p)

C16_Witness ==
    \E w \in Workers :
        \E p \in Positions(call[w]) :
            /\ FallbackSuccess(call[w].log[p])
            /\ call[w].log[p].k = 2
            /\ Len(call[w].candidates) = 3
            /\ Returned(call[w])

-----------------------------------------------------------------------------
(* A failing primary candidate leads to the fallback scan *)

ProviderFailed(c) ==
    \E p \in Positions(c) : c.log[p].op = "from_country" /\ ~c.log[p].ok

PrimarySessionFailed(c) ==
    \E p \in Positions(c) :
        c.log[p].op = "session" /\ c.log[p].src = "primary" /\ ~c.log[p].ok

PrimaryEvent(e) == e.src = "primary"

\* positions of _run_notte_sync from candidates = [] on
FallbackScan == {"explicit", "router", "discovery", "apply", "geo", "session"}

\* the call is in the fallback scan or has ended in it
InOrAfterFallbackScan(c) ==
    \/ c.pc \in FallbackScan
    \/ Returned(c) /\ RouteOf(c.result) \in FallbackRoutes
    \/ c.pc = "raised" /\ ~PrimaryEvent(c.log[Len(c.log)])

\* C17: without forced fallback, when NotteProxy.from_country fails no session is
\* run through a primary candidate, and when it fails or the primary session
\* fails the call goes on to the fallback scan: it is building or trying fallback
\* candidates, or it has ended there, and a returned outcome has one of the routes
\* mcp_proxy_used, no_mcp_candidates, mcp_all_failed.
C17_PrimaryFailureFallsBack ==
    \A w \in Workers :
        LET c == call[w] IN
        /\ ProviderFailed(c) =>
              /\ ~c.args.force_use_mcp_router
              /\ c.proxies_br = NoProxy
              /\ \A p \in Positions(c) : c.log[p].op = "session" => c.log[p].src # "primary"
              /\ InOrAfterFallbackScan(c)
        /\ PrimarySessionFailed(c) => InOrAfterFallbackScan(c)

C17_Witness ==
    \E w \in Workers :
        /\ ProviderFailed(call[w])
        /\ Returned(call[w])
        /\ RouteOf(call[w].result) = "mcp_proxy_used"

-----------------------------------------------------------------------------
(* The candidate contributed by MCP_ROUTER_HOSTNAME *)

\* the router step ran with a non-empty hostname
RouterConfigured(c) == Happened(c, "urlparse")

RouterPositions(c) == {k \in 1..Len(c.candidates) : c.candidates[k].src = "router"}

DnsResolved(c) == \E p \in Positions(c) : c.log[p].op = "dns" /\ c.log[p].ok

\* the candidate the stated rule gives for the hostname of call c
StatedRouterUrl(c) ==
    LET host == c.args.mcp_router_hostname IN
    IF Head(host) \in Schemes
    THEN host
    ELSE IF DnsResolved(c)
         THEN <<"socks5://">> \o (CHOOSE a \in DnsAnswers : a.some).val \o <<":1080">>
         ELSE <<"socks5://">> \o host \o <<":1080">>

\* C18 as stated: once a non-empty MCP_ROUTER_HOSTNAME has been handled, the
\* candidate list holds exactly one candidate from it: the value as-is when it
\* carries a scheme, else socks5://<resolved address>:1080 when DNS answered, else
\* socks5://<raw hostname>:1080; and such a call never returns no_mcp_candidates.
C18_RouterAlwaysContributes ==
    \A w \in Workers :
        LET c == call[w] IN
        RouterConfigured(c) =>
            /\ Cardinality(RouterPositions(c)) = 1
            /\ \A k \in RouterPositions(c) : c.candidates[k].url = StatedRouterUrl(c)
            /\ Returned(c) => RouteOf(c.result) # "no_mcp_candidates"

-----------------------------------------------------------------------------
(* Discovery is optional and never fatal *)

DiscoverPositions(c) == {p \in Positions(c) : c.log[p].op = "discover"}

\* the endpoint gave no usable answer
FailedResponse(r) ==
    \/ ~r.reached
    \/ r.status >= 400
    \/ ~r.json
    \/ ~FieldTruthy(r.router_address) /\ ~FieldTruthy(r.proxy_url)

\* after a lookup at position p the loop starts with the first candidate, or the
\* call returns no_mcp_candidates when there is none
ScanGoesOn(c, p) ==
    IF c.candidates = <<>>
    THEN Returned(c) /\ RouteOf(c.result) = "no_mcp_candidates"
    ELSE IF p = Len(c.log)
         THEN c.pc = "apply" /\ c.i = 1
         ELSE c.log[p + 1].op = "apply" /\ c.log[p + 1].k = 1

\* C19: a call makes at most one discovery lookup, and only with both
\* FASTCLOUD_API_URL and FASTCLOUD_API_TOKEN non-empty; an unreachable endpoint,
\* an error status, a body that is no JSON and a payload with neither
\* router_address nor proxy_url all give no candidate, and after a lookup without
\* result the call is not aborted: the candidate list holds only the explicit and
\* router candidates and the loop tries them from the first on.
C19_DiscoveryNeverFatal ==
    /\ \A r \in FastcloudResponses : FailedResponse(r) => DiscoverResult(r) = NotDiscovered
    /\ \A w \in Workers :
          LET c == call[w] IN
          /\ Cardinality(DiscoverPositions(c)) <= 1
          /\ \A p \in DiscoverPositions(c) :
                /\ c.args.fastcloud_api_url # <<>>
                /\ c.args.fastcloud_api_token # <<>>
                /\ ~c.log[p].ok =>
                      /\ \A k \in 1..Len(c.candidates) :
                            c.candidates[k].src \in {"explicit", "router"}
                      /\ ScanGoesOn(c, p)

C19_Witness ==
    \E w \in Workers :
        /\ \E p \in DiscoverPositions(call[w]) : ~call[w].log[p].ok
        /\ Len(call[w].candidates) = 2
        /\ Returned(call[w])
        /\ RouteOf(call[w].result) = "mcp_proxy_used"
        /\ call[w].i = 2

-----------------------------------------------------------------------------
(* The egress oracle is a gate for fallback candidates only *)

ObservePositions(c) == {p \in Positions(c) : c.log[p].op = "observe"}

ObservationsOf(c, k) == {p \in ObservePositions(c) : c.log[p].k = k}

\* with skip_geo_check the session of a candidate directly follows its application
StraightToSession(c) ==
    \A p \in Positions(c) :
        (c.log[p].op = "apply" /\ p < Len(c.log)) =>
            c.log[p + 1].op = "session" /\ c.log[p + 1].k = c.log[p].k

\* C20: _is_ip_outside_brazil is called only for fallback candidates, never for
\* the primary candidate; with skip_geo_check it is never called and every applied
\* candidate goes straight to its session; without it, it is called at most once
\* per candidate, after the candidate was applied.
C20_OracleOnlyGatesFallback ==
    \A w \in Workers :
        LET c == call[w] IN
        /\ \A p \in ObservePositions(c) :
              /\ c.log[p].k \in 1..Len(c.candidates)
              /\ c.log[p].src # "primary"
              /\ ~c.args.skip_geo_check
              /\ p > 1 /\ c.log[p - 1].op = "apply" /\ c.log[p - 1].k = c.log[p].k
        /\ \A k \in 1..Len(c.candidates) : Cardinality(ObservationsOf(c, k)) <= 1
        /\ c.args.skip_geo_check => StraightToSession(c)

C20_Witness ==
    \E w \in Workers :
        LET c == call[w] IN
        /\ c.args.skip_geo_check
        /\ Len(c.candidates) = 2
        /\ Returned(c)
        /\ RouteOf(c.result) = "mcp_proxy_used"
        /\ c.i = 2
        /\ SessionCount(c) = 3

=============================================================================
